---- MODULE Spec2Model ----
(***************************************************************************)
(* papyrusai: the folder conversion pipeline (converting.run_on_folder,    *)
(* run under converting.run_on_folder_sync), the unit of work              *)
(* (converting.convert_image_from_path: FileWriter, MistralOCRReader) and  *)
(* the file-name derivation it rests on.                                   *)
(* A second specification, SpecHeic, is the construction and use of        *)
(* Readers in concurrent worker threads (reading/base.py, reading/gpt.py): *)
(* the HEIC conversion target, the decoding fallback chain and the         *)
(* process-wide pillow_heif option it sets and restores.                   *)
(* A third, SpecFair, is one run of the pipeline in which every step that  *)
(* can be taken is taken in the end.                                       *)
(*                                                                         *)
(* File names are sequences of one-character strings, so that              *)
(* str.split('.'), os.path.splitext, str.lower and sorted() are computed   *)
(* on characters as Python computes them.                                  *)
(***************************************************************************)
EXTENDS Integers, Sequences, FiniteSets, TLC

\* ------------------------------------------------------------- bounds
\* Largest number of entries of the input directory.
MaxFiles == 3
\* Largest integer passed as max_concurrency (None, 0 and 1 are also passed).
MaxConcurrency == 2
\* Number of Readers built in concurrent worker threads.
MaxReaders == 2

\* A function given by a rule, as the table of its values (so that it is
\* computed once, not at every use).
Table(f) == f @@ <<>>

\* ------------------------------------------------------------ strings
\* ord(c) of the characters that occur in the modelled file names.
CodePoint(c) ==
  CASE c = "." -> 46 [] c = "1" -> 49 [] c = "2" -> 50
    [] c = "G" -> 71 [] c = "J" -> 74 [] c = "N" -> 78 [] c = "P" -> 80
    [] c = "_" -> 95 [] c = "a" -> 97 [] c = "b" -> 98 [] c = "c" -> 99
    [] c = "g" -> 103 [] c = "j" -> 106 [] c = "n" -> 110 [] c = "o" -> 111
    [] c = "p" -> 112 [] c = "t" -> 116 [] c = "u" -> 117 [] c = "x" -> 120

\* str.lower() on one character.
LowerChar(c) ==
  CASE c = "G" -> "g" [] c = "J" -> "j" [] c = "N" -> "n" [] c = "P" -> "p"
    [] OTHER -> c

\* str.lower()
Lower(s) == [i \in 1..Len(s) |-> LowerChar(s[i])]

\* Python's str comparison (used by sorted): lexicographic by code point.
StrLess(a, b) ==
  \E k \in 1..(Len(b)) :
    /\ \A i \in 1..(k - 1) : i <= Len(a) /\ a[i] = b[i]
    /\ \/ k = Len(a) + 1
       \/ k <= Len(a) /\ CodePoint(a[k]) < CodePoint(b[k])

\* path.split('.')[0]: the characters before the first dot (the whole name
\* when it holds no dot).
SplitDotFirst(path) ==
  LET dots == {i \in 1..Len(path) : path[i] = "."}
      first == IF dots = {} THEN Len(path) + 1
               ELSE CHOOSE i \in dots : \A j \in dots : i <= j
  IN SubSeq(path, 1, first - 1)

\* os.path.splitext(path) of a bare file name: <<root, ext>>.  The extension
\* starts at the last dot, unless only dots precede that dot.
Splitext(path) ==
  LET dots == {i \in 1..Len(path) : path[i] = "."}
      dotIndex == IF dots = {} THEN 0
                  ELSE CHOOSE i \in dots : \A j \in dots : j <= i
  IN IF dotIndex > 0 /\ \E i \in 1..(dotIndex - 1) : path[i] # "."
     THEN <<SubSeq(path, 1, dotIndex - 1), SubSeq(path, dotIndex, Len(path))>>
     ELSE <<path, <<>> >>

\* The entries in descending order: a listing that is not sorted.
RECURSIVE SortedDescending(_)
SortedDescending(S) ==
  IF S = {} THEN <<>>
  ELSE LET greatest == CHOOSE a \in S : \A b \in S \ {a} : StrLess(b, a)
       IN <<greatest>> \o SortedDescending(S \ {greatest})

\* sorted(S) for a set of strings.
RECURSIVE Sorted(_)
Sorted(S) ==
  IF S = {} THEN <<>>
  ELSE LET least == CHOOSE a \in S : \A b \in S \ {a} : StrLess(a, b)
       IN <<least>> \o Sorted(S \ {least})

\* ---------------------------------------------------- program constants
supported_extensions ==
  { <<".", "j", "p", "g">>, <<".", "j", "p", "e", "g">>, <<".", "p", "n", "g">>,
    <<".", "h", "e", "i", "c">>, <<".", "h", "e", "i", "f">> }

\* f"output_{path.split('.')[0]}.txt"
OutputFn(path) ==
  <<"o", "u", "t", "p", "u", "t", "_">> \o SplitDotFirst(path) \o <<".", "t", "x", "t">>

\* ------------------------------------------------------ the environment
\* Entries the input directory may hold.
FileUniverse ==
  { <<"a", ".", "j", "p", "g">>,
    <<"a", ".", "p", "n", "g">>,
    <<"b", ".", "P", "N", "G">>,
    <<"c", ".", "t", "x", "t">>,
    <<"p", ".", "1", ".", "j", "p", "g">>,
    <<"p", ".", "2", ".", "j", "p", "g">> }

\* Names the output directory may hold before the first run.
PreexistingUniverse ==
  { <<"o", "u", "t", "p", "u", "t", "_", "a", ".", "t", "x", "t">> }

\* File contents.
OldContent == [kind |-> "old", src |-> <<>>]
EmptyContent == [kind |-> "empty", src |-> <<>>]
\* The text the chat call returns for the markdown of the image at `path`.
TextOf(path) == [kind |-> "text", src |-> path]
\* The markdown the OCR call returns for the image at `path`.
MarkdownOf(path) == [kind |-> "markdown", src |-> path]
NoResult == [kind |-> "none", src |-> <<>>]

\* max_concurrency: None or an integer.
None == [isNone |-> TRUE, n |-> 0]
Some(k) == [isNone |-> FALSE, n |-> k]

VARIABLES
  input_folder,      \* os.listdir(input_folder): a set of file names
  unreadable,        \* the inputs whose image cannot be normalized
  max_concurrency,   \* the argument of run_on_folder
  output_folder,     \* the output directory: file name -> content
  prev,              \* how the previous run ended
  main,              \* where run_on_folder_sync is
  start_outputs,     \* output_folder as it was when the current run started
  tasks,             \* the paths of the created tasks, in creation order
  tstate,            \* the state of each task
  thr,               \* the position of each task's worker thread
  result,            \* each thread's local text (OCR markdown, chat content)
  semaphore          \* the asyncio.Semaphore, or none


\* ------------------------------------------------- Reader normalization
\* The state of Reader construction (reading/base.py, reading/gpt.py):
\* GPTImageReader objects being built and used in concurrent worker threads.
VARIABLES
  heic_output_format,        \* the heic_output_format argument of the Readers
  which,                     \* the OS utilities shutil.which finds
  ALLOW_INCORRECT_HEADERS,   \* pillow_heif.options.ALLOW_INCORRECT_HEADERS
  option_before,             \* that option before any Reader was built
  path_to_image,             \* each Reader's image
  pc,                        \* where each Reader's thread is
  attempts,                  \* each _load_heic_as_pillow_image's list
  original_allow_incorrect,  \* each _load_heic_as_pillow_image's local
  message,                   \* each _load_heic_as_pillow_image's local
  error                      \* the exception each thread raised, if any

heic == <<heic_output_format, which, ALLOW_INCORRECT_HEADERS, option_before,
          path_to_image, pc, attempts, original_allow_incorrect, message,
          error>>

pipeline == <<input_folder, unreadable, max_concurrency, output_folder, prev,
              main, start_outputs, tasks, tstate, thr, result, semaphore>>

vars == <<input_folder, unreadable, max_concurrency, output_folder, prev, main,
          start_outputs, tasks, tstate, thr, result, semaphore,
          heic_output_format, which, ALLOW_INCORRECT_HEADERS, option_before,
          path_to_image, pc, attempts, original_allow_incorrect, message,
          error>>

Readers == 1..MaxReaders

NoError == [type |-> "none", details |-> {}]

\* No Reader is being built.
HeicIdle ==
  /\ heic_output_format = <<"p", "n", "g">>
  /\ which = {}
  /\ ALLOW_INCORRECT_HEADERS = FALSE
  /\ option_before = FALSE
  /\ path_to_image = [t \in Readers |-> <<>>]
  /\ pc = [t \in Readers |-> "unused"]
  /\ attempts = [t \in Readers |-> <<>>]
  /\ original_allow_incorrect = [t \in Readers |-> FALSE]
  /\ message = [t \in Readers |-> {}]
  /\ error = [t \in Readers |-> NoError]

Units == 1..Len(tasks)

\* ---------------------------------------------------- run_on_folder
\* The extension filter left out: every entry passes.
IsSupportedAny(path) == TRUE

\* Line 55: the extension filter.
IsSupported(path) == Lower(Splitext(path)[2]) \in supported_extensions

\* The skip decision left out: nothing is taken to be there already.
NeverThere(output_fn, existing) == FALSE

\* Line 58: the skip decision.
AlreadyThere(output_fn, existing) == output_fn \in existing

\* The reservation left out: the set stays the snapshot.
ReserveNothing(existing, output_fn) == existing

\* Line 60: the reservation of the derived name.
Reserve(existing, output_fn) == existing \cup {output_fn}

\* Lines 52-61: the filtering loop over the sorted listing; the paths for
\* which a task is created, in order.
RECURSIVE FilterLoop(_, _, _, _)
FilterLoop(listing, i, existing, acc) ==
  IF i > Len(listing) THEN acc
  ELSE LET path == listing[i]
           output_fn == OutputFn(path)
       IN IF ~IsSupported(path) THEN FilterLoop(listing, i + 1, existing, acc)
          ELSE IF AlreadyThere(output_fn, existing)
               THEN FilterLoop(listing, i + 1, existing, acc)
               ELSE FilterLoop(listing, i + 1, Reserve(existing, output_fn),
                               Append(acc, path))

\* The snapshot of line 31 left out: existing_outputs starts empty.
DispatchedNoSnapshot(listing, outputs) ==
  FilterLoop(Sorted(listing), 1, {}, <<>>)

\* Lines 29-61 on the current directories.
Dispatched(listing, outputs) ==
  FilterLoop(Sorted(listing), 1, DOMAIN outputs, <<>>)

\* The semaphore never created.
NoSemaphore(mc) == [present |-> FALSE, value |-> 0]

\* Line 32: asyncio.Semaphore(max_concurrency) if max_concurrency else None
NewSemaphore(mc) ==
  IF ~mc.isNone /\ mc.n # 0 THEN [present |-> TRUE, value |-> mc.n]
  ELSE [present |-> FALSE, value |-> 0]

\* Lines 43 and 57 on every entry the input directory may hold.
OutputFnOf == Table([path \in FileUniverse |-> OutputFn(path)])

\* Line 44: the destination of a unit.
OutputPath(u) == OutputFnOf[tasks[u]]

Init ==
  /\ input_folder \in {S \in SUBSET FileUniverse : Cardinality(S) <= MaxFiles}
  /\ unreadable \in SUBSET {p \in input_folder : IsSupported(p)}
  /\ max_concurrency \in {None, Some(0), Some(1), Some(MaxConcurrency)}
  /\ \E pre \in SUBSET PreexistingUniverse :
       output_folder = [fn \in pre |-> OldContent]
  /\ prev = "none"
  /\ main = "idle"
  /\ start_outputs = output_folder
  /\ tasks = <<>>
  /\ tstate = <<>>
  /\ thr = <<>>
  /\ result = <<>>
  /\ semaphore = NewSemaphore(None)
  /\ HeicIdle

\* run_on_folder_sync is called, for the first time or again after a run
\* has ended: run_on_folder runs up to its first await
\* (lines 29-64): snapshot, semaphore, filtering loop, task creation.
StartRun ==
  /\ main \in {"idle", "returned", "raised"}
  /\ prev' = IF main = "idle" THEN "none" ELSE main
  /\ start_outputs' = output_folder
  /\ semaphore' = NewSemaphore(max_concurrency)
  /\ tasks' = Dispatched(input_folder, output_folder)
  /\ tstate' = [u \in 1..Len(tasks') |-> "waiting"]
  /\ thr' = [u \in 1..Len(tasks') |-> "none"]
  /\ result' = [u \in 1..Len(tasks') |-> NoResult]
  /\ main' = IF tasks' = <<>> THEN "returned" ELSE "awaiting"
  /\ UNCHANGED <<input_folder, unreadable, max_concurrency, output_folder>>
  /\ UNCHANGED heic

\* ------------------------------------------------------------ FileWriter
\* A constructor that opens its file for writing straight away.
FileWriterInitOpens(outputs, write_path) ==
  [fn \in DOMAIN outputs \cup {write_path} |->
     IF fn = write_path THEN [kind |-> "empty", src |-> <<>>] ELSE outputs[fn]]

\* writing.py lines 13-15: the constructor only stores the path.
FileWriterInit(outputs, write_path) == outputs

\* writing.py line 18: open(write_path, "w") creates or truncates the file.
FileOpen(outputs, write_path) ==
  [fn \in DOMAIN outputs \cup {write_path} |->
     IF fn = write_path THEN EmptyContent ELSE outputs[fn]]

\* writing.py line 19: f.write(content), and the close that ends the with.
FileWrite(outputs, write_path, content) ==
  [fn \in DOMAIN outputs \cup {write_path} |->
     IF fn = write_path THEN content ELSE outputs[fn]]

\* ------------------------------------------------------------ the units
Running == {"normalize", "ocr", "chat", "open", "write"}
Errors == {"err_normalize", "err_ocr", "err_chat", "err_open", "err_write"}
Finished == {"ok"} \cup Errors

\* Lines 35-36: semaphore.acquire() grants a slot when one is free;
\* asyncio wakes waiters first-in first-out, and the tasks reach the
\* semaphore in creation order.  Line 39: no semaphore, no wait.
CanAcquire(u) ==
  /\ \A v \in Units : v < u => tstate[v] # "waiting"
  /\ semaphore.present => semaphore.value > 0

\* _process enters _convert_path (lines 34-50): the slot is taken and
\* asyncio.to_thread hands convert_image_from_path to the thread pool.
Acquire(u) ==
  /\ main = "awaiting"
  /\ tstate[u] = "waiting"
  /\ CanAcquire(u)
  /\ tstate' = [tstate EXCEPT ![u] = "holding"]
  /\ thr' = [thr EXCEPT ![u] = "submitted"]
  /\ semaphore' = IF semaphore.present
                  THEN [semaphore EXCEPT !.value = @ - 1] ELSE semaphore
  /\ UNCHANGED <<input_folder, unreadable, max_concurrency, output_folder, prev,
                 main, start_outputs, tasks, result>>
  /\ UNCHANGED heic

\* Every task has run as far as it can: the event loop runs the steps of
\* the tasks that are ready (a created task, a waiter that a release has
\* woken) before it hands a finished task to run_on_folder.
TasksSuspended ==
  \A u \in Units : tstate[u] = "waiting" => ~CanAcquire(u)

\* A worker thread takes the unit's job, unless the task was cancelled
\* before that; line 92 constructs the FileWriter.
ThreadStart(u) ==
  /\ tstate[u] = "holding"
  /\ thr[u] = "submitted"
  /\ thr' = [thr EXCEPT ![u] = "normalize"]
  /\ output_folder' = FileWriterInit(output_folder, OutputPath(u))
  /\ UNCHANGED <<input_folder, unreadable, max_concurrency, prev, main,
                 start_outputs, tasks, tstate, result, semaphore>>
  /\ UNCHANGED heic

\* A Reader construction whose failure is swallowed: the unit goes on to
\* the OCR call whatever the image.
NormalizeSwallows(u) ==
  /\ thr[u] = "normalize"
  /\ thr' = [thr EXCEPT ![u] = "ocr"]
  /\ UNCHANGED <<input_folder, unreadable, max_concurrency, output_folder, prev,
                 main, start_outputs, tasks, tstate, result, semaphore>>
  /\ UNCHANGED heic

\* Line 93: MistralOCRReader(...) encodes (normalizes) the image and builds
\* the client; it raises for an image that cannot be normalized.
Normalize(u) ==
  /\ thr[u] = "normalize"
  /\ thr' = [thr EXCEPT ![u] = IF tasks[u] \in unreadable
                                THEN "err_normalize" ELSE "ocr"]
  /\ UNCHANGED <<input_folder, unreadable, max_concurrency, output_folder, prev,
                 main, start_outputs, tasks, tstate, result, semaphore>>
  /\ UNCHANGED heic

\* mistral.py lines 14-22: the OCR call and the joined markdown.
Ocr(u) ==
  /\ thr[u] = "ocr"
  /\ \/ /\ thr' = [thr EXCEPT ![u] = "chat"]
        /\ result' = [result EXCEPT ![u] = MarkdownOf(tasks[u])]
     \/ /\ thr' = [thr EXCEPT ![u] = "err_ocr"]
        /\ UNCHANGED result
  /\ UNCHANGED <<input_folder, unreadable, max_concurrency, output_folder, prev,
                 main, start_outputs, tasks, tstate, semaphore>>
  /\ UNCHANGED heic

\* mistral.py lines 23-30: the chat call on the prompt and the markdown;
\* read() returns its content.
Chat(u) ==
  /\ thr[u] = "chat"
  /\ \/ /\ thr' = [thr EXCEPT ![u] = "open"]
        /\ result' = [result EXCEPT ![u] = TextOf(result[u].src)]
     \/ /\ thr' = [thr EXCEPT ![u] = "err_chat"]
        /\ UNCHANGED result
  /\ UNCHANGED <<input_folder, unreadable, max_concurrency, output_folder, prev,
                 main, start_outputs, tasks, tstate, semaphore>>
  /\ UNCHANGED heic

\* writing.py line 18, reached from converting.py line 94 once read() has
\* returned.
Open(u) ==
  /\ thr[u] = "open"
  /\ \/ /\ thr' = [thr EXCEPT ![u] = "write"]
        /\ output_folder' = FileOpen(output_folder, OutputPath(u))
     \/ /\ thr' = [thr EXCEPT ![u] = "err_open"]
        /\ UNCHANGED output_folder
  /\ UNCHANGED <<input_folder, unreadable, max_concurrency, prev, main,
                 start_outputs, tasks, tstate, result, semaphore>>
  /\ UNCHANGED heic

\* writing.py line 19.  A failed write leaves the opened file behind.
Write(u) ==
  /\ thr[u] = "write"
  /\ \/ /\ thr' = [thr EXCEPT ![u] = "ok"]
        /\ output_folder' = FileWrite(output_folder, OutputPath(u), result[u])
     \/ /\ thr' = [thr EXCEPT ![u] = "err_write"]
        /\ UNCHANGED output_folder
  /\ UNCHANGED <<input_folder, unreadable, max_concurrency, prev, main,
                 start_outputs, tasks, tstate, result, semaphore>>
  /\ UNCHANGED heic

\* A task that ends without giving back its slot.
TaskFinishLeaks(u) ==
  /\ TasksSuspended
  /\ tstate[u] = "holding"
  /\ thr[u] \in Finished
  /\ tstate' = [tstate EXCEPT ![u] = IF thr[u] = "ok" THEN "done" ELSE "failed"]
  /\ UNCHANGED <<input_folder, unreadable, max_concurrency, output_folder, prev,
                 main, start_outputs, tasks, thr, result, semaphore>>
  /\ UNCHANGED heic

\* Lines 36-37: the thread's outcome reaches the task, which leaves the
\* async with (releasing its slot) and ends, returning or raising.
TaskFinish(u) ==
  /\ TasksSuspended
  /\ tstate[u] = "holding"
  /\ thr[u] \in Finished
  /\ tstate' = [tstate EXCEPT ![u] = IF thr[u] = "ok" THEN "done" ELSE "failed"]
  /\ semaphore' = IF semaphore.present
                  THEN [semaphore EXCEPT !.value = @ + 1] ELSE semaphore
  /\ UNCHANGED <<input_folder, unreadable, max_concurrency, output_folder, prev,
                 main, start_outputs, tasks, thr, result>>
  /\ UNCHANGED heic

\* Lines 66-67: every task has been awaited and none raised.
MainReturn ==
  /\ main = "awaiting"
  /\ \A u \in Units : tstate[u] = "done"
  /\ main' = "returned"
  /\ UNCHANGED <<input_folder, unreadable, max_concurrency, output_folder, prev,
                 start_outputs, tasks, tstate, thr, result, semaphore>>
  /\ UNCHANGED heic

\* What asyncio.run does to a task when run_on_folder has raised: an
\* unfinished task is cancelled.
AfterRaise(st) == IF st \in {"waiting", "holding"} THEN "cancelled" ELSE st

\* Line 67: `await task` re-raises the exception of a failed task, so
\* run_on_folder raises and asyncio.run (lines 77-84) cancels the tasks
\* that are left.  A cancelled task gives back its slot; its job is dropped
\* if no worker thread has taken it, and runs to its end otherwise.
MainRaise ==
  /\ main = "awaiting"
  /\ TasksSuspended
  /\ \E u \in Units : tstate[u] = "failed"
  /\ main' = "cleanup"
  /\ tstate' = [u \in Units |-> AfterRaise(tstate[u])]
  /\ semaphore' =
       IF semaphore.present
       THEN [semaphore EXCEPT !.value =
               @ + Cardinality({u \in Units : tstate[u] = "holding"
                                               /\ tstate'[u] = "cancelled"})]
       ELSE semaphore
  /\ UNCHANGED <<input_folder, unreadable, max_concurrency, output_folder, prev,
                 start_outputs, tasks, thr, result>>
  /\ UNCHANGED heic

\* Lines 77-84: asyncio.run joins the worker threads that were running and
\* then raises to the caller.
Shutdown ==
  /\ main = "cleanup"
  /\ \A u \in Units : thr[u] \notin Running
  /\ main' = "raised"
  /\ UNCHANGED <<input_folder, unreadable, max_concurrency, output_folder, prev,
                 start_outputs, tasks, tstate, thr, result, semaphore>>
  /\ UNCHANGED heic

Next ==
  \/ StartRun
  \/ \E u \in Units : Acquire(u)
  \/ \E u \in Units : ThreadStart(u)
  \/ \E u \in Units : Normalize(u)
  \/ \E u \in Units : Ocr(u)
  \/ \E u \in Units : Chat(u)
  \/ \E u \in Units : Open(u)
  \/ \E u \in Units : Write(u)
  \/ \E u \in Units : TaskFinish(u)
  \/ MainReturn
  \/ MainRaise
  \/ Shutdown

Spec == Init /\ [][Next]_vars

\* =========================================== Readers in worker threads
\* reading/base.py line 21.
_HEIC_EXTENSIONS == { <<".", "h", "e", "i", "c">>, <<".", "h", "e", "i", "f">> }

\* reading/base.py lines 22-28: the keys of the table.
_HEIC_OUTPUT_FORMATS ==
  { <<"p", "n", "g">>, <<"j", "p", "e", "g">>, <<"j", "p", "g">>,
    <<"w", "e", "b", "p">>, <<"g", "i", "f">> }

\* Images a Reader may be given.
ImageUniverse == { <<"a", ".", "h", "e", "i", "c">>, <<"a", ".", "j", "p", "g">> }

\* Values heic_output_format may be given.
FormatUniverse == { <<"p", "n", "g">>, <<"P", "N", "G">>, <<"b", "m", "p">> }

\* reading/gpt.py line 21: self._heic_output_format.
_heic_output_format == Lower(heic_output_format)

\* What the decoders may raise.
MetadataError ==
  [type |-> "ValueError",
   msg |-> "Invalid input: Metadata not correctly assigned to image"]
InvalidInputError ==
  [type |-> "ValueError", msg |-> "Invalid input: No 'ftyp' box"]
DecodeError == [type |-> "OSError", msg |-> "cannot decode"]
OpenHeifErrors == {MetadataError, InvalidInputError, DecodeError}
UnidentifiedError ==
  [type |-> "UnidentifiedImageError", msg |-> "cannot identify image file"]
ToolError(tool) == [type |-> "CalledProcessError", msg |-> tool]

\* reading/base.py line 98: "Metadata not correctly assigned" in str(exc).
MentionsMetadata(msg) ==
  msg = "Invalid input: Metadata not correctly assigned to image"

\* reading/base.py lines 97-102: whether _try_open collects the exception
\* (and returns None) rather than letting it through.
TryOpenCollects(exc) == exc.type # "ValueError" \/ MentionsMetadata(exc.msg)

\* reading/base.py line 135: the set that is joined into the message.
Details(collected) ==
  {collected[i] : i \in {j \in 1..Len(collected) : collected[j] # ""}}

\* The pipeline is not running.
PipelineIdle ==
  /\ input_folder = {}
  /\ unreadable = {}
  /\ max_concurrency = None
  /\ output_folder = <<>>
  /\ prev = "none"
  /\ main = "idle"
  /\ start_outputs = <<>>
  /\ tasks = <<>>
  /\ tstate = <<>>
  /\ thr = <<>>
  /\ result = <<>>
  /\ semaphore = NewSemaphore(None)

InitHeic ==
  /\ PipelineIdle
  /\ heic_output_format \in FormatUniverse
  /\ which \in SUBSET {"magick", "sips"}
  /\ ALLOW_INCORRECT_HEADERS \in BOOLEAN
  /\ option_before = ALLOW_INCORRECT_HEADERS
  /\ path_to_image \in [Readers -> ImageUniverse]
  /\ pc = [t \in Readers |-> "load"]
  /\ attempts = [t \in Readers |-> <<>>]
  /\ original_allow_incorrect = [t \in Readers |-> FALSE]
  /\ message = [t \in Readers |-> {}]
  /\ error = [t \in Readers |-> NoError]

\* A thread-local step: pc, attempts, message and error may change.
Local == UNCHANGED <<pipeline, heic_output_format, which,
                     ALLOW_INCORRECT_HEADERS, option_before, path_to_image,
                     original_allow_incorrect>>

\* reading/gpt.py line 22, reading/base.py lines 37-47: encode_image calls
\* _load_image_bytes, which converts a HEIC/HEIF image and reads the bytes
\* of any other.
LoadImageBytes(t) ==
  /\ pc[t] = "load"
  /\ pc' = [pc EXCEPT ![t] =
              IF Lower(Splitext(path_to_image[t])[2]) \in _HEIC_EXTENSIONS
              THEN "convert" ELSE "encoded"]
  /\ UNCHANGED <<attempts, message, error>>
  /\ Local

\* reading/base.py lines 52-64 (pillow-heif and Pillow installed): the
\* check of the conversion target.
ConvertHeicImage(t) ==
  /\ pc[t] = "convert"
  /\ IF _heic_output_format \notin _HEIC_OUTPUT_FORMATS
     THEN /\ pc' = [pc EXCEPT ![t] = "raised"]
          /\ error' = [error EXCEPT ![t] =
                         [type |-> "ValueError",
                          details |-> {"Unsupported HEIC conversion target"}]]
     ELSE /\ pc' = [pc EXCEPT ![t] = "open_heif"]
          /\ UNCHANGED error
  /\ UNCHANGED <<attempts, message>>
  /\ Local

\* reading/base.py lines 91-111: _try_open() and _try_open(reload_size=True).
TryOpen(t) ==
  /\ pc[t] \in {"open_heif", "open_heif_reload"}
  /\ \/ /\ pc' = [pc EXCEPT ![t] = "reencode"]
        /\ UNCHANGED <<attempts, error>>
     \/ \E exc \in OpenHeifErrors :
          IF TryOpenCollects(exc)
          THEN /\ attempts' = [attempts EXCEPT ![t] = Append(@, exc.msg)]
               /\ pc' = [pc EXCEPT ![t] = IF pc[t] = "open_heif"
                                          THEN "open_heif_reload"
                                          ELSE "read_heif"]
               /\ UNCHANGED error
          ELSE /\ pc' = [pc EXCEPT ![t] = "raised"]
               /\ error' = [error EXCEPT ![t] =
                              [type |-> exc.type, details |-> {exc.msg}]]
               /\ UNCHANGED attempts
  /\ UNCHANGED message
  /\ Local

\* reading/base.py lines 113-117: read_heif.
ReadHeif(t) ==
  /\ pc[t] = "read_heif"
  /\ \/ /\ pc' = [pc EXCEPT ![t] = "reencode"]
        /\ UNCHANGED attempts
     \/ /\ attempts' = [attempts EXCEPT ![t] = Append(@, DecodeError.msg)]
        /\ pc' = [pc EXCEPT ![t] = "save_option"]
  /\ UNCHANGED <<message, error>>
  /\ Local

\* reading/base.py lines 120-122: the option is read into the local.
SaveOption(t) ==
  /\ pc[t] = "save_option"
  /\ original_allow_incorrect' =
       [original_allow_incorrect EXCEPT ![t] = ALLOW_INCORRECT_HEADERS]
  /\ pc' = [pc EXCEPT ![t] = "set_option"]
  /\ UNCHANGED <<pipeline, heic_output_format, which, ALLOW_INCORRECT_HEADERS,
                 option_before, path_to_image, attempts, message, error>>

\* reading/base.py line 123.
SetOption(t) ==
  /\ pc[t] = "set_option"
  /\ ALLOW_INCORRECT_HEADERS' = TRUE
  /\ pc' = [pc EXCEPT ![t] = "image_open"]
  /\ UNCHANGED <<pipeline, heic_output_format, which, option_before,
                 path_to_image, attempts, original_allow_incorrect, message,
                 error>>

\* reading/base.py lines 124-131: Image.open under the permissive option.
ImageOpen(t) ==
  /\ pc[t] = "image_open"
  /\ \/ /\ pc' = [pc EXCEPT ![t] = "restore_return"]
        /\ UNCHANGED attempts
     \/ /\ attempts' = [attempts EXCEPT ![t] = Append(@, UnidentifiedError.msg)]
        /\ pc' = [pc EXCEPT ![t] = "restore"]
  /\ UNCHANGED <<message, error>>
  /\ Local

\* reading/base.py lines 132-133: the finally clause writes the local back.
RestoreOption(t) ==
  /\ pc[t] \in {"restore", "restore_return"}
  /\ ALLOW_INCORRECT_HEADERS' = original_allow_incorrect[t]
  /\ pc' = [pc EXCEPT ![t] = IF pc[t] = "restore" THEN "join" ELSE "reencode"]
  /\ UNCHANGED <<pipeline, heic_output_format, which, option_before,
                 path_to_image, attempts, original_allow_incorrect, message,
                 error>>

\* reading/base.py line 135: message is built from the attempts so far.
JoinMessage(t) ==
  /\ pc[t] = "join"
  /\ message' = [message EXCEPT ![t] = Details(attempts[t])]
  /\ pc' = [pc EXCEPT ![t] = "magick"]
  /\ UNCHANGED <<attempts, error>>
  /\ Local

\* reading/base.py lines 146-161: a converter that is installed is tried;
\* its failure is appended to attempts.
Converter(t, tool, next) ==
  /\ pc[t] = tool
  /\ \/ /\ tool \notin which
        /\ pc' = [pc EXCEPT ![t] = next]
        /\ UNCHANGED attempts
     \/ /\ tool \in which
        /\ pc' = [pc EXCEPT ![t] = "reencode"]
        /\ UNCHANGED attempts
     \/ /\ tool \in which
        /\ attempts' = [attempts EXCEPT ![t] = Append(@, ToolError(tool).msg)]
        /\ pc' = [pc EXCEPT ![t] = next]
  /\ UNCHANGED <<message, error>>
  /\ Local

ConvertWithMagick(t) == Converter(t, "magick", "sips")
ConvertWithSips(t) == Converter(t, "sips", "fail")

\* reading/base.py lines 141-144: the decode error, with the message of
\* line 135 as its details.
RaiseDecode(t) ==
  /\ pc[t] = "fail"
  /\ error' = [error EXCEPT ![t] =
                 [type |-> "RuntimeError", details |-> message[t]]]
  /\ pc' = [pc EXCEPT ![t] = "raised"]
  /\ UNCHANGED <<attempts, message>>
  /\ Local

\* reading/base.py lines 66-82 and 39-40: the decoded image is re-encoded
\* in the target format and base64-encoded.
Reencode(t) ==
  /\ pc[t] = "reencode"
  /\ pc' = [pc EXCEPT ![t] = "encoded"]
  /\ UNCHANGED <<attempts, message, error>>
  /\ Local

\* reading/gpt.py lines 24-36: read() posts the image to the backend.
Read(t) ==
  /\ pc[t] = "encoded"
  /\ pc' = [pc EXCEPT ![t] = "called"]
  /\ UNCHANGED <<attempts, message, error>>
  /\ Local

\* examples/anatomy.py line 31: writer.write of what read() returned.
WriteOutput(t) ==
  /\ pc[t] = "called"
  /\ pc' = [pc EXCEPT ![t] = "written"]
  /\ UNCHANGED <<attempts, message, error>>
  /\ Local

NextHeic ==
  \/ \E t \in Readers : LoadImageBytes(t)
  \/ \E t \in Readers : ConvertHeicImage(t)
  \/ \E t \in Readers : TryOpen(t)
  \/ \E t \in Readers : ReadHeif(t)
  \/ \E t \in Readers : SaveOption(t)
  \/ \E t \in Readers : SetOption(t)
  \/ \E t \in Readers : ImageOpen(t)
  \/ \E t \in Readers : RestoreOption(t)
  \/ \E t \in Readers : JoinMessage(t)
  \/ \E t \in Readers : ConvertWithMagick(t)
  \/ \E t \in Readers : ConvertWithSips(t)
  \/ \E t \in Readers : RaiseDecode(t)
  \/ \E t \in Readers : Reencode(t)
  \/ \E t \in Readers : Read(t)
  \/ \E t \in Readers : WriteOutput(t)

SpecHeic == InitHeic /\ [][NextHeic]_vars

\* ================================================================ claims
\* The extension of an entry as the claims mean it: the part of the name
\* from its last dot on, lower-cased, and whether it is one of the five.
ListedExtension(path) ==
  Lower(Splitext(path)[2]) \in
    { <<".", "j", "p", "g">>, <<".", "j", "p", "e", "g">>, <<".", "p", "n", "g">>,
      <<".", "h", "e", "i", "c">>, <<".", "h", "e", "i", "f">> }

IsListed == Table([path \in FileUniverse |-> ListedExtension(path)])

\* The entries of a directory with one of the five extensions.
Listed(dir) == {path \in dir : IsListed[path]}

\* The basename of an entry without its final extension.
Stem(path) == Splitext(path)[1]

\* output_<stem>.txt
StemOutput(path) ==
  <<"o", "u", "t", "p", "u", "t", "_">> \o Stem(path) \o <<".", "t", "x", "t">>

StemOutputOf == Table([path \in FileUniverse |-> StemOutput(path)])

\* Whether two entries have the same stem.
SameStem ==
  Table([pq \in FileUniverse \X FileUniverse |-> Stem(pq[1]) = Stem(pq[2])])

\* sorted() order on the entries.
Before ==
  Table([pq \in FileUniverse \X FileUniverse |-> StrLess(pq[1], pq[2])])

\* The thread positions at which read() has returned its text.
AfterRead == {"open", "write", "ok", "err_open", "err_write"}

\* The thread positions at which the destination file has been opened.
AfterOpen == {"write", "ok", "err_write"}

\* The thread positions of a unit that failed before read() returned.
FailedInRead == {"err_normalize", "err_ocr", "err_chat"}

\* The unit's Reader.read() has returned its text.
ReadReturned(u) == thr[u] \in AfterRead

\* The unit has opened its destination file.
Opened(u) == thr[u] \in AfterOpen

\* The files of the output directory that were not there when the run began.
NewFiles == DOMAIN output_folder \ DOMAIN start_outputs

\* Whether a file name is one of them.
IsNew(fn) == fn \in DOMAIN output_folder /\ fn \notin DOMAIN start_outputs

\* The units inside their conversion step.
InConversion == {u \in Units : tstate[u] = "holding" \/ thr[u] \in Running}

RunEnded == main \in {"returned", "raised"}

\* C1: a destination file that was absent when the run began exists only
\* if it has an owning unit and the read() of every unit with that
\* destination has returned; a unit that failed in normalization or in a
\* backend call has no such file.
C1_WriteOnlyAfterRead ==
  /\ \A fn \in NewFiles :
       /\ \E u \in Units : OutputPath(u) = fn
       /\ \A u \in Units : OutputPath(u) = fn => ReadReturned(u)
  /\ \A u \in Units : thr[u] \in FailedInRead => ~IsNew(OutputPath(u))

C1_Witness ==
  \E u, v \in Units :
    /\ thr[u] = "ok" /\ OutputPath(u) \in NewFiles
    /\ thr[v] \in FailedInRead
    /\ OutputPath(v) \notin DOMAIN output_folder

\* C2: with max_concurrency = N >= 1, never more than N units are inside
\* their conversion step; with max_concurrency = None the run has no
\* semaphore at all.
C2_ConcurrencyBound ==
  /\ (~max_concurrency.isNone /\ max_concurrency.n >= 1)
       => Cardinality(InConversion) <= max_concurrency.n
  /\ (max_concurrency.isNone /\ main # "idle") => ~semaphore.present

\* Two network calls in flight under N = 2 while a third unit waits.
C2_Witness ==
  /\ max_concurrency = Some(2)
  /\ \E u, v, w \in Units :
       /\ u # v
       /\ thr[u] \in {"ocr", "chat"} /\ thr[v] \in {"ocr", "chat"}
       /\ tstate[w] = "waiting"

\* C3 (as stated): when the run has ended, every dispatched unit that did
\* not itself fail has been converted and written, and every unit that
\* failed has had its failure recorded by its task.
C3_SiblingsSurvive ==
  RunEnded =>
    \A u \in Units :
      /\ thr[u] \notin Errors
           => /\ thr[u] = "ok"
              /\ OutputPath(u) \in DOMAIN output_folder
              /\ output_folder[OutputPath(u)] = TextOf(tasks[u])
      /\ thr[u] \in Errors => tstate[u] = "failed"

\* C4: a run that follows a run which returned normally dispatches no
\* unit and leaves the output directory as it found it.
C4_Idempotent ==
  prev = "returned" =>
    /\ tasks = <<>>
    /\ main = "returned"
    /\ output_folder = start_outputs

\* The first run converted something, and the second run has been made.
C4_Witness ==
  /\ prev = "returned"
  /\ \E fn \in DOMAIN output_folder : output_folder[fn].kind = "text"
  /\ Listed(input_folder) # {}

\* C5 (as stated): an output file that a failed write left incomplete is
\* not taken for a finished output: the run that finds it dispatches a
\* unit for that destination again.
C5_PartialNotSkipped ==
  main # "idle" =>
    \A fn \in DOMAIN start_outputs :
      start_outputs[fn].kind = "empty" => \E u \in Units : OutputPath(u) = fn

\* The pairs of different supported entries with the same stem.
StemPairUniverse ==
  DOMAIN Table([pq \in {xy \in FileUniverse \X FileUniverse :
                          /\ xy[1] # xy[2]
                          /\ IsListed[xy[1]] /\ IsListed[xy[2]]
                          /\ SameStem[xy]} |-> TRUE])

\* The supported same-stem pairs of the input directory whose output is
\* not there when the run begins.
StemPairs ==
  {pq \in StemPairUniverse :
     /\ pq[1] \in input_folder
     /\ pq[2] \in input_folder
     /\ StemOutputOf[pq[1]] \notin DOMAIN start_outputs}

\* C6 (as stated): for a same-stem pair of which at least one input can
\* be normalized, a run in which no backend call and no write failed and
\* no unit was cancelled before it started ends with output_<stem>.txt
\* written, by exactly one unit.
C6_ExactlyOneOutput ==
  (/\ RunEnded
   /\ \A u \in Units : thr[u] \notin {"none", "submitted", "err_ocr",
                                      "err_chat", "err_open", "err_write"})
  => \A pq \in StemPairs :
       (pq[1] \notin unreadable \/ pq[2] \notin unreadable)
         => /\ StemOutputOf[pq[1]] \in DOMAIN output_folder
            /\ output_folder[StemOutputOf[pq[1]]].kind = "text"
            /\ Cardinality({u \in Units : OutputPath(u) = StemOutputOf[pq[1]]
                                           /\ Opened(u)}) = 1

\* C6 (amended): for a same-stem pair whose derived output name is not
\* there when the run begins, exactly one unit has that destination, it is
\* the unit of the input that sorts first among the supported inputs
\* deriving that name, and the file exists exactly when that unit has
\* opened it.
C6_OneUnitPerStem ==
  main # "idle" =>
    \A pq \in StemPairs :
      LET fn == OutputFnOf[pq[1]]
          owners == {u \in Units : OutputPath(u) = fn}
          sharing == {r \in Listed(input_folder) : OutputFnOf[r] = fn}
      IN fn \notin DOMAIN start_outputs =>
           /\ Cardinality(owners) = 1
           /\ \A u \in owners :
                /\ \A r \in sharing \ {tasks[u]} : Before[<<tasks[u], r>>]
                /\ fn \in DOMAIN output_folder <=> Opened(u)

\* A same-stem pair whose one unit has written the output.
C6_Witness ==
  /\ main = "returned"
  /\ StemPairs # {}
  /\ \E pq \in StemPairs :
       /\ StemOutputOf[pq[1]] \in DOMAIN output_folder
       /\ output_folder[StemOutputOf[pq[1]]].kind = "text"

\* C7: no unit is dispatched for an entry whose extension is not one of
\* the five, and every file the run creates belongs to a unit of an entry
\* whose extension is.
C7_UnsupportedIgnored ==
  /\ \A u \in Units : IsListed[tasks[u]]
  /\ \A fn \in NewFiles :
       \E u \in Units : OutputPath(u) = fn /\ IsListed[tasks[u]]

\* An unsupported entry beside a converted one.
C7_Witness ==
  /\ main = "returned"
  /\ \E p \in input_folder :
       /\ ~IsListed[p]
       /\ OutputFnOf[p] \notin DOMAIN output_folder
  /\ \E u \in Units : thr[u] = "ok"

\* C8: an input whose derived output name is there when the run begins
\* gets no unit, and every file that was there when the run began keeps
\* its content.
C8_ExistingUntouched ==
  /\ \A u \in Units : OutputPath(u) \notin DOMAIN start_outputs
  /\ \A fn \in DOMAIN start_outputs :
       fn \in DOMAIN output_folder /\ output_folder[fn] = start_outputs[fn]

\* An input skipped for its pre-existing output while another is converted.
C8_Witness ==
  /\ main = "returned"
  /\ \E p \in input_folder :
       /\ IsListed[p]
       /\ OutputFnOf[p] \in DOMAIN start_outputs
       /\ output_folder[OutputFnOf[p]] = OldContent
  /\ \E u \in Units : thr[u] = "ok" /\ output_folder[OutputPath(u)] = TextOf(tasks[u])

\* C9 (as stated): a run that began on an empty output directory and
\* returned leaves exactly the files output_<stem>.txt of the supported
\* inputs, each holding the text returned for an input of that stem.
C9_ExactOutputs ==
  (main = "returned" /\ prev = "none" /\ DOMAIN start_outputs = {})
  => /\ DOMAIN output_folder = {StemOutputOf[p] : p \in Listed(input_folder)}
     /\ \A fn \in DOMAIN output_folder :
          \E p \in Listed(input_folder) :
            StemOutputOf[p] = fn /\ output_folder[fn] = TextOf(p)

\* C10 (as stated): every unit's destination is output_<stem>.txt, and two
\* supported inputs with different stems whose outputs are not there when
\* the run begins both get a unit.
C10_StemNaming ==
  main # "idle" =>
    /\ \A u \in Units : OutputPath(u) = StemOutputOf[tasks[u]]
    /\ \A p, q \in Listed(input_folder) :
         (/\ ~SameStem[<<p, q>>]
          /\ StemOutputOf[p] \notin DOMAIN start_outputs
          /\ StemOutputOf[q] \notin DOMAIN start_outputs
          /\ OutputFnOf[p] \notin DOMAIN start_outputs
          /\ OutputFnOf[q] \notin DOMAIN start_outputs)
         => \E u, v \in Units : tasks[u] = p /\ tasks[v] = q

\* C11: within one run no two units have the same destination, so at any
\* moment at most one unit has a given destination file open for writing
\* and at most one unit has ever opened it.
C11_UniqueDestinations ==
  \A u, v \in Units :
    /\ u # v => OutputPath(u) # OutputPath(v)
    /\ (Opened(u) /\ Opened(v) /\ OutputPath(u) = OutputPath(v)) => u = v

\* Two inputs that derive one name are in the directory, and two units
\* have their (different) destinations open at the same time.
C11_Witness ==
  /\ \E p, q \in input_folder :
       p # q /\ IsListed[p] /\ IsListed[q] /\ OutputFnOf[p] = OutputFnOf[q]
  /\ \E u, v \in Units : u # v /\ thr[u] = "write" /\ thr[v] = "write"

\* ------------------------------------------- the sequential mode
\* examples/anatomy.py line 13: str.endswith on one suffix.
EndsWith(path, suffix) ==
  /\ Len(path) >= Len(suffix)
  /\ SubSeq(path, Len(path) - Len(suffix) + 1, Len(path)) = suffix

\* examples/anatomy.py line 13: path.endswith(("jpg", "png", "jpeg")).
EndsWithImageSuffix(path) ==
  \/ EndsWith(path, <<"j", "p", "g">>)
  \/ EndsWith(path, <<"p", "n", "g">>)
  \/ EndsWith(path, <<"j", "p", "e", "g">>)

\* examples/anatomy.py lines 12-20: the loop of main over the listing as
\* os.listdir returned it; `outputs` is the output directory as line 18
\* lists it afresh for every entry, and a conversion that returned has
\* written its file.  The paths converted, in order.
RECURSIVE AnatomyLoop(_, _, _, _)
AnatomyLoop(listing, i, outputs, acc) ==
  IF i > Len(listing) THEN acc
  ELSE LET path == listing[i]
           output_fn == OutputFn(path)
       IN IF ~EndsWithImageSuffix(path)
          THEN AnatomyLoop(listing, i + 1, outputs, acc)
          ELSE IF output_fn \in outputs
               THEN AnatomyLoop(listing, i + 1, outputs, acc)
               ELSE AnatomyLoop(listing, i + 1, outputs \cup {output_fn},
                                Append(acc, path))

\* examples/anatomy.py line 11: main(input_folder, output_folder).
AnatomyMain(listing, outputs) == AnatomyLoop(listing, 1, outputs, <<>>)

\* The orders in which os.listdir may return the entries of a directory.
ListingOrders(dir) ==
  {listing \in [1..Cardinality(dir) -> dir] :
     \A i, j \in 1..Cardinality(dir) : i # j => listing[i] # listing[j]}

\* C12 (as stated): on the directories a run of run_on_folder started
\* from, the sequential main selects the same inputs as the run created
\* tasks for and writes the same output names, in whatever order the
\* directory is listed.
C12_SameSelection ==
  main # "idle" =>
    \A listing \in ListingOrders(input_folder) :
      LET selected == AnatomyMain(listing, DOMAIN start_outputs)
      IN /\ {selected[i] : i \in 1..Len(selected)} = {tasks[u] : u \in Units}
         /\ {OutputFnOf[selected[i]] : i \in 1..Len(selected)}
              = {OutputPath(u) : u \in Units}

\* ------------------------------------------------- claims on the Readers
\* A Reader whose construction raised out of the HEIC decoding chain.
DecodeFailed(t) ==
  /\ pc[t] = "raised"
  /\ _heic_output_format \in _HEIC_OUTPUT_FORMATS

\* C13 (as stated): a HEIC decode fails only after every strategy has been
\* tried and has had its failure collected: the two open_heif calls,
\* read_heif, the permissive Image.open and each installed OS utility.
C13_AllStrategiesTried ==
  \A t \in Readers :
    DecodeFailed(t) => Len(attempts[t]) = 4 + Cardinality(which)

\* C14 (as stated): the decode error raised when every strategy has failed
\* carries the set of all collected messages, those of the failed OS
\* utilities included.
C14_ErrorCarriesAllMessages ==
  \A t \in Readers :
    (pc[t] = "raised" /\ error[t].type = "RuntimeError")
      => error[t].details = Details(attempts[t])

\* ------------------------------------------- claims on the pipeline (2)
\* The thread positions at which the unit has made no backend call.
BeforeOcr == {"none", "submitted", "normalize", "err_normalize"}

\* The thread positions at which no backend call has returned.
BeforeMarkdown == BeforeOcr \cup {"ocr", "err_ocr"}

\* The thread positions at which the OCR call has returned and the chat
\* call has not.
AtChat == {"chat", "err_chat"}

\* The thread positions at which read() has not returned.
BeforeText == BeforeMarkdown \cup AtChat

\* C15: a unit's thread starts only once the unit has taken its slot; an
\* input that cannot be normalized never gets to a backend call; the chat
\* call is made on the markdown the OCR call returned, the file is
\* written with the text the chat call returned; a unit whose OCR call
\* failed has no chat result and no file.
C15_StepOrder ==
  \A u \in Units :
    /\ thr[u] # "none" => tstate[u] # "waiting"
    /\ tasks[u] \in unreadable => thr[u] \in BeforeOcr
    /\ thr[u] \in BeforeMarkdown => result[u] = NoResult
    /\ thr[u] \in AtChat => result[u] = MarkdownOf(tasks[u])
    /\ ReadReturned(u) => result[u] = TextOf(tasks[u])
    /\ thr[u] \in BeforeText => ~IsNew(OutputPath(u))

\* One unit has been written, one failed in normalization and one in the
\* OCR call, and neither of the two has a file.
C15_Witness ==
  \E u, v, w \in Units :
    /\ thr[u] = "ok" /\ output_folder[OutputPath(u)] = TextOf(tasks[u])
    /\ thr[v] = "err_normalize" /\ OutputPath(v) \notin DOMAIN output_folder
    /\ thr[w] = "err_ocr" /\ OutputPath(w) \notin DOMAIN output_folder

\* For each entry, the supported entries that derive the same output name
\* and sort before it.
EarlierOfName ==
  Table([p \in FileUniverse |->
           {q \in FileUniverse \ {p} :
              IsListed[q] /\ OutputFnOf[q] = OutputFnOf[p] /\ Before[<<q, p>>]}])

\* The inputs a run dispatches, told from the two directories alone: the
\* supported entries whose derived name is not in the output directory,
\* and of those that derive one name the one that sorts first.
FirstOfEachName ==
  {p \in input_folder :
     /\ IsListed[p]
     /\ OutputFnOf[p] \notin DOMAIN start_outputs
     /\ EarlierOfName[p] \cap input_folder = {}}

\* C16: the tasks are in ascending order of their file names; a unit
\* gets its slot only when every unit before it has got one; with
\* max_concurrency = 1 a unit's conversion starts only when the
\* conversion of every unit before it has ended; and the inputs
\* dispatched are a function of the contents of the two directories.
C16_AscendingOrder ==
  /\ \A u, v \in Units :
       u < v =>
         /\ Before[<<tasks[u], tasks[v]>>]
         /\ thr[v] # "none" => thr[u] # "none"
         /\ (max_concurrency = Some(1) /\ thr[v] # "none")
              => thr[u] \in Finished
  /\ main # "idle" => {tasks[u] : u \in Units} = FirstOfEachName

\* Under max_concurrency = 1 the first unit is done and the second is in
\* its OCR call; the second is the first of two inputs that derive one
\* name.
C16_Witness ==
  /\ max_concurrency = Some(1)
  /\ Len(tasks) = 2
  /\ tstate[1] = "done" /\ thr[2] = "ocr"
  /\ \E q \in Listed(input_folder) \ {tasks[2]} :
       OutputFnOf[q] = OutputPath(2) /\ Before[<<tasks[2], q>>]

\* C17 (as stated): for every integer passed as max_concurrency, 0
\* included, never more units than that integer are inside their
\* conversion step.
C17_BoundForEveryInteger ==
  ~max_concurrency.isNone =>
    Cardinality(InConversion) <= max_concurrency.n

\* The place of a thread position in the order of the steps.
Rank(position) ==
  CASE position = "none" -> 0 [] position = "submitted" -> 1
    [] position = "normalize" -> 2 [] position = "ocr" -> 3
    [] position = "chat" -> 4 [] position = "open" -> 5
    [] position = "write" -> 6 [] OTHER -> 7

\* C18, the part on attempts: within a run the task list does not change,
\* no input has two units, a thread only moves forward through the steps
\* and a thread or task that has ended stays as it ended.
C18_AtMostOneAttempt ==
  [][ \/ main \in {"idle", "returned", "raised"}
      \/ /\ tasks' = tasks
         /\ \A u, v \in Units : u # v => tasks[u] # tasks[v]
         /\ \A u \in Units :
              /\ thr'[u] # thr[u] =>
                   /\ thr[u] \notin Finished
                   /\ Rank(thr'[u]) > Rank(thr[u])
                   /\ thr'[u] \notin Finished => Rank(thr'[u]) = Rank(thr[u]) + 1
              /\ tstate[u] \in {"done", "failed", "cancelled"}
                   => tstate'[u] = tstate[u] ]_vars

\* C18 (as stated): no input has two units, and when the run has ended
\* every dispatched unit has produced its one result: it has succeeded
\* and its thread wrote the file, or it has failed and its thread raised.
C18_ExactlyOneResult ==
  /\ \A u, v \in Units : u # v => tasks[u] # tasks[v]
  /\ RunEnded =>
       \A u \in Units :
         \/ tstate[u] = "done" /\ thr[u] = "ok"
         \/ tstate[u] = "failed" /\ thr[u] \in Errors

\* C19 (as stated): with a conversion target outside the table no Reader
\* gets as far as a backend call or a written output, whatever its image.
C19_InvalidTargetFailsFast ==
  _heic_output_format \notin _HEIC_OUTPUT_FORMATS =>
    \A t \in Readers : pc[t] \notin {"called", "written"}

\* C20 (as stated): when every Reader's normalization has ended, the
\* option ALLOW_INCORRECT_HEADERS has the value it had before the first
\* began.
C20_OptionRestored ==
  (\A t \in Readers : pc[t] \in {"encoded", "called", "written", "raised"})
    => ALLOW_INCORRECT_HEADERS = option_before

\* ------------------------------------------------- termination and slots
\* The steps of one unit's worker thread: convert_image_from_path in the
\* thread asyncio.to_thread hands it to (lines 45-50, 87-94).
Worker(u) ==
  \/ ThreadStart(u)
  \/ Normalize(u)
  \/ Ocr(u)
  \/ Chat(u)
  \/ Open(u)
  \/ Write(u)

\* The steps of the event loop that asyncio.run drives: the _process
\* coroutines of the tasks and run_on_folder itself.
EventLoop ==
  \/ \E u \in Units : Acquire(u)
  \/ \E u \in Units : TaskFinish(u)
  \/ MainReturn
  \/ MainRaise
  \/ Shutdown

\* The event loop runs whatever is ready, and every normalization, backend
\* call and write returns, with a result or an error: a worker thread that
\* can step does step.  Nothing obliges the caller to call at all.
Fairness ==
  /\ WF_vars(EventLoop)
  /\ \A u \in 1..MaxFiles : WF_vars(u \in Units /\ Worker(u))

\* Entries of the input directory that give zero to three units, two of
\* them deriving the same output name.
UnitUniverse ==
  { <<"a", ".", "j", "p", "g">>,
    <<"b", ".", "P", "N", "G">>,
    <<"p", ".", "1", ".", "j", "p", "g">>,
    <<"p", ".", "2", ".", "j", "p", "g">> }

\* The arguments and directories of one call of run_on_folder_sync.
InitFair == Init /\ input_folder \subseteq UnitUniverse

\* The one call of run_on_folder_sync.
FirstRun == main = "idle" /\ StartRun

NextFair ==
  \/ FirstRun
  \/ \E u \in Units : Acquire(u)
  \/ \E u \in Units : ThreadStart(u)
  \/ \E u \in Units : Normalize(u)
  \/ \E u \in Units : Ocr(u)
  \/ \E u \in Units : Chat(u)
  \/ \E u \in Units : Open(u)
  \/ \E u \in Units : Write(u)
  \/ \E u \in Units : TaskFinish(u)
  \/ MainReturn
  \/ MainRaise
  \/ Shutdown

\* One run of run_on_folder_sync whose steps are all taken in the end.
SpecFair == InitFair /\ [][NextFair]_vars /\ Fairness

\* A unit of the run has failed.
SomeUnitFailed == \E v \in Units : thr[v] \in Errors

\* Every dispatched unit has had its slot and has completed.
AllCompleted == \A u \in Units : tstate[u] = "done" /\ thr[u] = "ok"

\* The slots of the semaphore are the free ones and the ones of the tasks
\* inside the async with: none is lost and none is made up.
SlotsAccounted ==
  semaphore.present =>
    /\ semaphore.value >= 0
    /\ semaphore.value + Cardinality({u \in Units : tstate[u] = "holding"})
         = max_concurrency.n

\* C21: if every normalization, backend call and write returns, a run of
\* run_on_folder ends; unless a unit failed, every dispatched unit has by
\* then had a slot and completed; and the slot of a unit is given back on
\* every outcome, so that the free and the held slots always add up to the
\* bound (1 or more), whatever the number of units.
C21_TerminatesWithoutLeak ==
  /\ (main = "awaiting") ~> (RunEnded /\ (SomeUnitFailed \/ AllCompleted))
  /\ []SlotsAccounted

\* A run under a bound of one slot has ended: the first unit completed and
\* gave its slot to the second, which failed, and the slot is free again.
C21_Witness ==
  /\ main = "raised"
  /\ semaphore.present
  /\ max_concurrency.n = 1
  /\ Len(tasks) = 3
  /\ tstate[1] = "done"
  /\ tstate[2] = "failed"
  /\ semaphore.value = 1
====
